---- MODULE Spec2Model ----
(***************************************************************************)
(* Model of the circular-geometry and time-axis logic of the three         *)
(* plotting scripts planets_plot_longitude.py, plot_aspects_distance.py    *)
(* and plot_trine_distance_multi_wide.py.                                  *)
(*                                                                         *)
(* Numbers.  Angles are Python floats in the source.  Here an angle is an  *)
(* integer count of fixed-point units, AngleScale units to the degree, and *)
(* every arithmetic operation is exact; the rounding of binary floating    *)
(* point is outside the model.  x % m of TLA+ is the floored modulus, as   *)
(* Python's % is for a positive divisor.                                   *)
(***************************************************************************)
EXTENDS Integers, Sequences, FiniteSets, TLC

VARIABLES
    segPc, segDates, segLons, segStart, segI, segOut,
    angPc, angDelta, angTargets, angNearest, angTrine,
    dPc, dA, dB, dAB, dBA,
    axPc, axStart, axEnd, axMonths, axPlan, axLabels,
    snPc, snMin, snMax, snLo, snHi,
    zPc, zY, zLabel, zSign, zDegrees,
    ingPc, ingScript, ingFile, ingIdx, ingRows, ingError, ingDf, ingSep,
    mainPc, mainRef, mainOrb, mainChosen, mainWide, mainPlanets, mainSeries,
    mainOutcome

segVars == <<segPc, segDates, segLons, segStart, segI, segOut>>
angVars == <<angPc, angDelta, angTargets, angNearest, angTrine>>
dVars == <<dPc, dA, dB, dAB, dBA>>
axVars == <<axPc, axStart, axEnd, axMonths, axPlan, axLabels>>
snVars == <<snPc, snMin, snMax, snLo, snHi>>
zVars == <<zPc, zY, zLabel, zSign, zDegrees>>
ingVars == <<ingPc, ingScript, ingFile, ingIdx, ingRows, ingError, ingDf, ingSep>>
mainVars ==
    <<mainPc, mainRef, mainOrb, mainChosen, mainWide, mainPlanets, mainSeries,
      mainOutcome>>

vars == <<segVars, angVars, dVars, axVars, snVars, zVars, ingVars, mainVars>>

(***************************************************************************)
(* Bounds and scales                                                       *)
(***************************************************************************)
\* fixed-point units per degree for the angle engine and the segmenter
AngleScale == 2
\* longest series handed to break_on_wrap
MaxLen == 4
\* year of the first date of the index given to setup_time_axis
AxFirstYear == 1999
\* the last date of the index lies at most this many years later
AxSpanYears == 101
\* most major tick labels the axis hands back
MaxTicks == 4
\* fixed-point units per 0.001 degree for the tick values of the formatter
TolUnits == 2
\* most lines of an input file
MaxLines == 3
\* largest year field of a line, as a number
MaxYearField == 1100
\* the year fields of the whitespace form go this far below zero
MaxYearBelow == 3

Deg(x) == x * AngleScale

Abs(x) == IF x < 0 THEN -x ELSE x

\* a remainder that takes the sign of the dividend (C's fmod), which Python's
\* % is not
TruncMod(x, m) == IF x >= 0 THEN x % m ELSE -((-x) % m)

RECURSIVE SeqsUpTo(_, _)
SeqsUpTo(S, n) ==
    IF n = 0 THEN {<<>>}
    ELSE LET shorter == SeqsUpTo(S, n - 1)
         IN  shorter \cup {Append(s, x) : s \in {t \in shorter : Len(t) = n - 1}, x \in S}

(***************************************************************************)
(* Discontinuity segmenter: break_on_wrap                                  *)
(***************************************************************************)
\* default of the parameter threshold (180.0)
Threshold == Deg(180)

\* longitudes of the sampled series, in degrees
SegAngleDegs == {0, 10, 20, 30, 190, 200, 350, 355}
SegAngles == {Deg(d) : d \in SegAngleDegs}

\* one series sorted by date: the k-th sample carries day number k
DatesFor(n) == [k \in 1..n |-> k]

Slice(s, from, to) == [k \in 1..(to - from + 1) |-> s[from + k - 1]]

SegIdle ==
    /\ segPc = "idle" /\ segDates = <<>> /\ segLons = <<>>
    /\ segStart = 0 /\ segI = 0 /\ segOut = <<>>

SegInit ==
    /\ segPc = "entry"
    /\ segLons \in SeqsUpTo(SegAngles, MaxLen)
    /\ segDates = DatesFor(Len(segLons))
    /\ segStart = 0
    /\ segI = 0
    /\ segOut = <<>>

\* lines 83-85: the empty series returns at once; otherwise start = 0
\* (positions are 1-based here: segStart is the first position of the open run)
SegEnter ==
    /\ segPc = "entry"
    /\ IF Len(segLons) = 0
       THEN segPc' = "done" /\ UNCHANGED <<segStart, segI>>
       ELSE segPc' = "loop" /\ segStart' = 1 /\ segI' = 2
    /\ UNCHANGED <<segDates, segLons, segOut>>

\* the comparison of line 87, on the variant with >= in place of >
SegScanGe ==
    /\ segPc = "loop"
    /\ segI <= Len(segLons)
    /\ IF Abs(segLons[segI] - segLons[segI - 1]) >= Threshold
       THEN /\ segOut' = Append(segOut,
                   [dates |-> Slice(segDates, segStart, segI - 1),
                    lons  |-> Slice(segLons, segStart, segI - 1)])
            /\ segStart' = segI
       ELSE UNCHANGED <<segOut, segStart>>
    /\ segI' = segI + 1
    /\ UNCHANGED <<segPc, segDates, segLons>>

\* lines 86-89: one iteration of the scan
SegScan ==
    /\ segPc = "loop"
    /\ segI <= Len(segLons)
    /\ IF Abs(segLons[segI] - segLons[segI - 1]) > Threshold
       THEN /\ segOut' = Append(segOut,
                   [dates |-> Slice(segDates, segStart, segI - 1),
                    lons  |-> Slice(segLons, segStart, segI - 1)])
            /\ segStart' = segI
       ELSE UNCHANGED <<segOut, segStart>>
    /\ segI' = segI + 1
    /\ UNCHANGED <<segPc, segDates, segLons>>

\* line 90: the open run is yielded when the scan is over
SegFinal ==
    /\ segPc = "loop"
    /\ segI > Len(segLons)
    /\ segOut' = Append(segOut,
           [dates |-> Slice(segDates, segStart, Len(segDates)),
            lons  |-> Slice(segLons, segStart, Len(segLons))])
    /\ segPc' = "done"
    /\ UNCHANGED <<segDates, segLons, segStart, segI>>

SegNext ==
    \/ SegEnter /\ UNCHANGED <<angVars, dVars, axVars, snVars, zVars, ingVars, mainVars>>
    \/ SegScan /\ UNCHANGED <<angVars, dVars, axVars, snVars, zVars, ingVars, mainVars>>
    \/ SegFinal /\ UNCHANGED <<angVars, dVars, axVars, snVars, zVars, ingVars, mainVars>>

----
\* C1 -- helpers of the statement
RECURSIVE ConcatField(_, _)
ConcatField(segs, f) ==
    IF segs = <<>> THEN <<>> ELSE segs[1][f] \o ConcatField(Tail(segs), f)

Jumps(lons) == {i \in 2..Len(lons) : Abs(lons[i] - lons[i - 1]) > Threshold}

\* first input position of the k-th yielded segment
SegFirstPos(k) == segOut[k].dates[1]

\* C1: when break_on_wrap has finished, the yielded segments are non-empty,
\* their dates and longitudes stay aligned, their concatenation in yield
\* order is the input, a segment begins at position i > 1 exactly when
\* |lons[i] - lons[i-1]| > 180, and the number of segments is 0 for the
\* empty input and 1 + the number of such jumps otherwise.
C1_Partition ==
    segPc = "done" =>
        /\ \A k \in 1..Len(segOut) :
              /\ Len(segOut[k].lons) >= 1
              /\ Len(segOut[k].dates) = Len(segOut[k].lons)
        /\ ConcatField(segOut, "lons") = segLons
        /\ ConcatField(segOut, "dates") = segDates
        /\ {SegFirstPos(k) : k \in 2..Len(segOut)} = Jumps(segLons)
        /\ Len(segOut) = IF Len(segLons) = 0 THEN 0
                         ELSE 1 + Cardinality(Jumps(segLons))

\* the run on [10,20,350,355] has ended with the two segments [10,20], [350,355]
C1_Witness ==
    /\ segPc = "done"
    /\ segLons = <<Deg(10), Deg(20), Deg(350), Deg(355)>>
    /\ Len(segOut) = 2
    /\ segOut[1].lons = <<Deg(10), Deg(20)>>
    /\ segOut[2].lons = <<Deg(350), Deg(355)>>
    /\ segOut[2].dates = <<3, 4>>

(***************************************************************************)
(* Angular distance engine: wrap360, the signed delta, nearest_distance,   *)
(* nearest_trine_abs                                                       *)
(***************************************************************************)
\* wrap360(x) = float(x) % 360.0
wrap360(x) == x % Deg(360)

\* the signed delta without the half-turn shift before the modulus
SignedDeltaNoShift(a, b) == ((a - b) % Deg(360)) - Deg(180)

\* the signed delta with a remainder that takes the sign of the dividend
SignedDeltaTrunc(a, b) == TruncMod(a - b + Deg(180), Deg(360)) - Deg(180)

\* the expression of plot_aspects_distance.py line 82 (and of lines 65-66 of
\* the trine script): d = (a - b + 180.0) % 360.0 - 180.0
SignedDelta(a, b) == ((a - b + Deg(180)) % Deg(360)) - Deg(180)

\* best = 999.0
NoBest == Deg(999)

\* the loop of nearest_distance on the variant that adds the distances up
RECURSIVE NearestLoopSum(_, _, _, _)
NearestLoopSum(delta, targets, k, best) ==
    IF k > Len(targets) THEN best
    ELSE LET ad == Abs(SignedDelta(delta, targets[k]))
         IN  NearestLoopSum(delta, targets, k + 1,
                            IF best = NoBest THEN ad ELSE best + ad)

\* lines 81-84: for t in targets: d = ...; ad = abs(d); if ad < best: best = ad
RECURSIVE NearestLoop(_, _, _, _)
NearestLoop(delta, targets, k, best) ==
    IF k > Len(targets) THEN best
    ELSE LET ad == Abs(SignedDelta(delta, targets[k]))
         IN  NearestLoop(delta, targets, k + 1, IF ad < best THEN ad ELSE best)

\* nearest_distance(delta_deg, targets)
nearest_distance(delta, targets) == NearestLoop(delta, targets, 1, NoBest)

\* nearest_trine_abs(delta_deg)
nearest_trine_abs(delta) ==
    LET d1 == Abs(((delta - Deg(120) + Deg(180)) % Deg(360)) - Deg(180))
        d2 == Abs(((delta - Deg(240) + Deg(180)) % Deg(360)) - Deg(180))
    IN  IF d1 <= d2 THEN d1 ELSE d2

\* ASPECTS: the target lists of trine, square, opposition, conjunction
ASPECTS ==
    [trine       |-> <<Deg(120), Deg(240)>>,
     square      |-> <<Deg(90), Deg(270)>>,
     opposition  |-> <<Deg(180)>>,
     conjunction |-> <<Deg(0)>>]

AspectLists == {ASPECTS[k] : k \in DOMAIN ASPECTS}

\* further target lists: one or two targets on the 45-degree grid
TargetGrid == {Deg(45 * k) : k \in 0..7}
TargetLists ==
    AspectLists \cup {<<t>> : t \in TargetGrid}
                \cup {<<s, t>> : s \in TargetGrid, t \in TargetGrid}

\* every delta of [0, 360) on the fixed-point grid
Deltas == 0..(Deg(360) - 1)

AngIdle ==
    /\ angPc = "idle" /\ angDelta = 0 /\ angTargets = <<>>
    /\ angNearest = -1 /\ angTrine = -1

AngInit ==
    /\ angPc = "in"
    /\ angDelta \in Deltas
    /\ angTargets \in TargetLists
    /\ angNearest = -1
    /\ angTrine = -1

\* d_abs = nearest_distance(d, targets)  (plot_aspects_distance.py line 283)
AngNearest ==
    /\ angPc = "in"
    /\ angNearest' = nearest_distance(angDelta, angTargets)
    /\ angPc' = "nearest"
    /\ UNCHANGED <<angDelta, angTargets, angTrine>>

\* d_abs = nearest_trine_abs(d)  (plot_trine_distance_multi_wide.py line 127)
AngTrine ==
    /\ angPc = "nearest"
    /\ angTrine' = nearest_trine_abs(angDelta)
    /\ angPc' = "done"
    /\ UNCHANGED <<angDelta, angTargets, angNearest>>

AngNext ==
    \/ AngNearest /\ UNCHANGED <<segVars, dVars, axVars, snVars, zVars, ingVars, mainVars>>
    \/ AngTrine /\ UNCHANGED <<segVars, dVars, axVars, snVars, zVars, ingVars, mainVars>>

\* the signed delta applied to a pair of angles, in both directions
DeltaAs == Deltas
DeltaBs == {Deg(30 * k) : k \in -12..23}

DIdle == dPc = "idle" /\ dA = 0 /\ dB = 0 /\ dAB = 0 /\ dBA = 0

DInit ==
    /\ dPc = "in"
    /\ dA \in DeltaAs
    /\ dB \in DeltaBs
    /\ dAB = 0
    /\ dBA = 0

DApply ==
    /\ dPc = "in"
    /\ dAB' = SignedDelta(dA, dB)
    /\ dBA' = SignedDelta(dB, dA)
    /\ dPc' = "done"
    /\ UNCHANGED <<dA, dB>>

DNext ==
    \/ DApply /\ UNCHANGED <<segVars, angVars, axVars, snVars, zVars, ingVars, mainVars>>

(***************************************************************************)
(* Adaptive time axis: month_count, setup_time_axis                        *)
(***************************************************************************)
\* month_count(start, end)
month_count(start, end) ==
    (end.year - start.year) * 12 + (end.month - start.month) + 1

Locator(unit, every) == [unit |-> unit, interval |-> every]

\* what one branch of the tier chain sets; 0 stands for None
Tier(major, minor, fmt, monthLines, yearGrid, nMonths, nYears) ==
    [major_loc |-> major, minor_loc |-> minor, fmt |-> fmt,
     draw_month_lines |-> monthLines, draw_year_grid |-> yearGrid,
     label_every_n_months |-> nMonths, label_every_n_years |-> nYears]

\* the tier chain with < in place of <=
TierForLt(months) ==
    IF months < 12 THEN
        Tier(Locator("month", 1), Locator("weekday_MO", 1), "%d %b %Y", TRUE, FALSE, 1, 0)
    ELSE IF months < 36 THEN
        Tier(Locator("month", 1), Locator("month", 1), "%b %Y", TRUE, FALSE, 1, 0)
    ELSE IF months < 120 THEN
        Tier(Locator("month", 3), Locator("month", 1), "%b %Y", TRUE, FALSE, 3, 0)
    ELSE IF months < 240 THEN
        Tier(Locator("year", 1), Locator("month", 3), "%Y", FALSE, TRUE, 0, 1)
    ELSE IF months < 480 THEN
        Tier(Locator("year", 2), Locator("year", 1), "%Y", FALSE, TRUE, 0, 2)
    ELSE IF months < 1200 THEN
        Tier(Locator("year", 5), Locator("year", 1), "%Y", FALSE, TRUE, 0, 5)
    ELSE
        Tier(Locator("year", 10), Locator("year", 1), "%Y", FALSE, TRUE, 0, 10)

\* lines 124-171: the defaults and the if/elif chain on months
TierFor(months) ==
    IF months <= 12 THEN
        Tier(Locator("month", 1), Locator("weekday_MO", 1), "%d %b %Y", TRUE, FALSE, 1, 0)
    ELSE IF months <= 36 THEN
        Tier(Locator("month", 1), Locator("month", 1), "%b %Y", TRUE, FALSE, 1, 0)
    ELSE IF months <= 120 THEN
        Tier(Locator("month", 3), Locator("month", 1), "%b %Y", TRUE, FALSE, 3, 0)
    ELSE IF months <= 240 THEN
        Tier(Locator("year", 1), Locator("month", 3), "%Y", FALSE, TRUE, 0, 1)
    ELSE IF months <= 480 THEN
        Tier(Locator("year", 2), Locator("year", 1), "%Y", FALSE, TRUE, 0, 2)
    ELSE IF months <= 1200 THEN
        Tier(Locator("year", 5), Locator("year", 1), "%Y", FALSE, TRUE, 0, 5)
    ELSE
        Tier(Locator("year", 10), Locator("year", 1), "%Y", FALSE, TRUE, 0, 10)

\* lines 191-195: lab.set_visible((i % label_every_n_months) == 0), i from 0
MonthLabels(labels, n) == [k \in DOMAIN labels |-> ((k - 1) % n) = 0]

\* lines 213-217: lab.set_visible((i % 1) == 0)
YearLabels(labels) == [k \in DOMAIN labels |-> ((k - 1) % 1) = 0]

NoPlan == Tier(Locator("null", 0), Locator("null", 0), "", FALSE, FALSE, 0, 0)

AxIdle ==
    /\ axPc = "idle" /\ axStart = [year |-> 0, month |-> 0]
    /\ axEnd = [year |-> 0, month |-> 0]
    /\ axMonths = 0 /\ axPlan = NoPlan /\ axLabels = <<>>

\* the year and month of dt_index[0] and dt_index[-1] of a sorted index
AxStarts == {[year |-> AxFirstYear, month |-> m] : m \in 1..12}
AxEnds == {[year |-> y, month |-> m] :
              y \in AxFirstYear..(AxFirstYear + AxSpanYears), m \in 1..12}
NotBefore(e, s) == e.year > s.year \/ (e.year = s.year /\ e.month >= s.month)

AxInit ==
    /\ axPc = "entry"
    /\ axStart \in AxStarts
    /\ axEnd \in {e \in AxEnds : NotBefore(e, axStart)}
    /\ axMonths = 0
    /\ axPlan = NoPlan
    /\ axLabels = <<>>

\* lines 117-185: months, the tier, the locators and the formatter; the axis
\* then holds some number of major tick labels, all visible
AxPlan ==
    /\ axPc = "entry"
    /\ axMonths' = month_count(axStart, axEnd)
    /\ axPlan' = TierFor(axMonths')
    /\ \E n \in 0..MaxTicks : axLabels' = [k \in 1..n |-> TRUE]
    /\ axPc' = "planned"
    /\ UNCHANGED <<axStart, axEnd>>

\* lines 187-217: the visibility of the major tick labels
AxLabel ==
    /\ axPc = "planned"
    /\ axLabels' =
          LET afterMonths ==
                  IF axPlan.draw_month_lines /\ axPlan.label_every_n_months # 0
                  THEN MonthLabels(axLabels, axPlan.label_every_n_months)
                  ELSE axLabels
          IN  IF axPlan.draw_year_grid /\ axPlan.label_every_n_years # 0
              THEN YearLabels(afterMonths)
              ELSE afterMonths
    /\ axPc' = "done"
    /\ UNCHANGED <<axStart, axEnd, axMonths, axPlan>>

AxNext ==
    \/ AxPlan /\ UNCHANGED <<segVars, angVars, dVars, snVars, zVars, ingVars, mainVars>>
    \/ AxLabel /\ UNCHANGED <<segVars, angVars, dVars, snVars, zVars, ingVars, mainVars>>

(***************************************************************************)
(* Zodiac scale: snap_bounds                                               *)
(***************************************************************************)
Max2(x, y) == IF x >= y THEN x ELSE y
Min2(x, y) == IF x <= y THEN x ELSE y

\* math.floor(x / 5.0) * 5.0 and math.ceil(x / 5.0) * 5.0 on fixed-point x
FloorTo5(x) == (x \div Deg(5)) * Deg(5)
CeilTo5(x) == -(((-x) \div Deg(5)) * Deg(5))

\* snap_bounds without the clip of the lower bound at 0
snap_boundsNoClip(min_deg, max_deg) ==
    LET lo == FloorTo5(min_deg - Deg(2))
        hi == CeilTo5(max_deg + Deg(2))
    IN  <<lo, Min2(Deg(360), IF hi > lo THEN hi ELSE lo + Deg(5))>>

\* snap_bounds(min_deg, max_deg), lines 114-118
snap_bounds(min_deg, max_deg) ==
    LET lo0 == FloorTo5(min_deg - Deg(2))
        hi0 == CeilTo5(max_deg + Deg(2))
        lo  == Max2(Deg(0), lo0)
        hi  == Min2(Deg(360), IF hi0 > lo THEN hi0 ELSE lo + Deg(5))
    IN  <<lo, hi>>

SnIdle == snPc = "idle" /\ snMin = 0 /\ snMax = 0 /\ snLo = 0 /\ snHi = 0

\* df['lon_deg'].min() and .max() of stored angles: 0 <= min <= max < 360
SnInit ==
    /\ snPc = "in"
    /\ snMin \in Deltas
    /\ snMax \in {x \in Deltas : x >= snMin}
    /\ snLo = 0
    /\ snHi = 0

\* y_lo, y_hi = snap_bounds(df['lon_deg'].min(), df['lon_deg'].max())
SnApply ==
    /\ snPc = "in"
    /\ snLo' = snap_bounds(snMin, snMax)[1]
    /\ snHi' = snap_bounds(snMin, snMax)[2]
    /\ snPc' = "done"
    /\ UNCHANGED <<snMin, snMax>>

SnNext ==
    \/ SnApply /\ UNCHANGED <<segVars, angVars, dVars, axVars, zVars, ingVars, mainVars>>

(***************************************************************************)
(* Zodiac scale: sign_name_at, degrees_only_label, clean_zodiac_formatter  *)
(***************************************************************************)
\* tick values are counted in units of 1/TickScale degree
TickScale == 1000 * TolUnits
TDeg(x) == x * TickScale

SIGNS == <<"Aries", "Taurus", "Gemini", "Cancer", "Leo", "Virgo",
           "Libra", "Scorpio", "Sagittarius", "Capricorn", "Aquarius", "Pisces">>

\* sign_name_at(deg): d = deg % 360.0; idx = int(d // 30); SIGNS[idx]
sign_name_at(deg) ==
    LET d == deg % TDeg(360)
        idx == d \div TDeg(30)
    IN  SIGNS[idx + 1]

\* int(x) on a non-negative fixed-point x, the variant that drops the fraction
TruncToInt(x) == x \div TickScale

\* int(round(x)) on a non-negative fixed-point x: Python 3 rounds to the
\* nearest integer and a tie to the even one
RoundToInt(x) ==
    LET q == x \div TickScale
        r == x % TickScale
    IN  IF 2 * r < TickScale THEN q
        ELSE IF 2 * r > TickScale THEN q + 1
        ELSE IF q % 2 = 0 THEN q ELSE q + 1

DigitChar == <<"0", "1", "2", "3", "4", "5", "6", "7", "8", "9">>
\* stands for the degree sign U+00B0
DegreeSign == "deg"

\* f"{dd:02d}" followed by the degree sign, for 0 <= dd < 100
TwoDigitLabel(dd) == DigitChar[(dd \div 10) + 1] \o DigitChar[(dd % 10) + 1] \o DegreeSign

\* degrees_only_label(deg), lines 98-102
degrees_only_label(deg) ==
    LET d  == deg % TDeg(30)
        dd == RoundToInt(d)
    IN  TwoDigitLabel(IF dd = 30 THEN 0 ELSE dd)

\* the tolerance 0.001 of line 107
Tolerance == TolUnits

\* _fmt(y) with <= in place of < in the tolerance test
fmtLe(y) ==
    IF Abs(y % TDeg(30)) <= Tolerance \/ Abs((y % TDeg(30)) - TDeg(30)) <= Tolerance
    THEN sign_name_at(y)
    ELSE degrees_only_label(y)

\* clean_zodiac_formatter()._fmt(y), lines 105-110
fmt(y) ==
    IF Abs(y % TDeg(30)) < Tolerance \/ Abs((y % TDeg(30)) - TDeg(30)) < Tolerance
    THEN sign_name_at(y)
    ELSE degrees_only_label(y)

ZIdle == zPc = "idle" /\ zY = 0 /\ zLabel = "" /\ zSign = "" /\ zDegrees = ""

\* a tick value of the longitude axis, 0..360 degrees
ZInit ==
    /\ zPc = "in"
    /\ zY \in 0..TDeg(360)
    /\ zLabel = "" /\ zSign = "" /\ zDegrees = ""

\* the formatter is called on the tick; the two helpers on the same value
ZFormat ==
    /\ zPc = "in"
    /\ zLabel' = fmt(zY)
    /\ zSign' = sign_name_at(zY)
    /\ zDegrees' = degrees_only_label(zY)
    /\ zPc' = "done"
    /\ UNCHANGED zY

ZNext ==
    \/ ZFormat /\ UNCHANGED <<segVars, angVars, dVars, axVars, snVars, ingVars, mainVars>>

(***************************************************************************)
(* Row normalizer: parse_file (longitude script) and parse_csv (the two    *)
(* aspect scripts)                                                         *)
(*                                                                         *)
(* A line of text is modelled by what the recognisers read from it:        *)
(*   form "strict"    RE_ROW matches; d, mo, y are its three digit groups, *)
(*                    planet the stripped group 4, lon the decimal group 5 *)
(*   form "fallback"  RE_ROW does not match, the line splits on blanks     *)
(*                    into >= 3 parts, parts[0] holds a '.', parts[1] is   *)
(*                    alphabetic; parses tells whether parts[0] splits     *)
(*                    into exactly three integers and parts[2] is a float  *)
(*   form "other"     neither                                              *)
(***************************************************************************)
Scripts == {"longitude", "aspects", "trine"}

Line(form, d, mo, y, planet, lon, parses) ==
    [form |-> form, d |-> d, mo |-> mo, y |-> y, planet |-> planet,
     lon |-> lon, parses |-> parses]

\* the lines of the input files; an angle field is a whole number of
\* degrees or one fixed-point unit beside it
Lines ==
    { Line("strict", 1, 1, 2024, "Mars", Deg(10), TRUE),
      Line("strict", 1, 1, 2024, "Sun", Deg(359) + 1, TRUE),
      Line("strict", 2, 1, 2024, "Mars", -1, TRUE),
      Line("strict", 2, 1, 2024, "Sun", Deg(725) + 1, TRUE),
      Line("strict", 31, 2, 2024, "Mars", Deg(20), TRUE),
      Line("strict", 1, 13, 2024, "Sun", Deg(20), TRUE),
      Line("strict", 3, 1, 24, "Mars", -Deg(725) - 1, TRUE),
      Line("strict", 3, 1, 500, "Sun", Deg(360), TRUE),
      Line("strict", 29, 2, 2023, "Mars", -Deg(360), TRUE),
      Line("fallback", 1, 1, 24, "Mars", Deg(370), TRUE),
      Line("fallback", 31, 2, 2024, "Sun", Deg(5), TRUE),
      Line("fallback", 4, 1, 95, "Sun", -Deg(10), TRUE),
      Line("fallback", 1, 1, 0, "Mars", Deg(10), FALSE),
      Line("other", 0, 0, 0, "", 0, FALSE) }

\* the expansion on the variant that leaves every year from 100 up as written
ExpandYearTwoDigit(y) == IF y < 100 THEN y + (IF y < 80 THEN 2000 ELSE 1900) ELSE y

\* if y < 1000: y += 2000 if y < 80 else 1900
ExpandYear(y) == IF y < 1000 THEN y + (IF y < 80 THEN 2000 ELSE 1900) ELSE y

IsLeap(y) == (y % 4 = 0 /\ y % 100 # 0) \/ y % 400 = 0
DaysInMonth(y, mo) ==
    IF mo = 2 THEN (IF IsLeap(y) THEN 29 ELSE 28)
    ELSE IF mo \in {4, 6, 9, 11} THEN 30 ELSE 31

\* dt.datetime(y, mo, d) raises ValueError unless this holds
ValidDate(y, mo, d) ==
    /\ y >= 1 /\ y <= 9999
    /\ mo >= 1 /\ mo <= 12
    /\ d >= 1 /\ d <= DaysInMonth(y, mo)

\* the stored angle on the variant with C's remainder
StoreAngleTrunc(lon) == TruncMod(lon, Deg(360))

\* lon = float(...) % 360.0
StoreAngle(lon) == lon % Deg(360)

\* the tuple appended to rows: (dt.datetime(y, mo, d), planet, lon)
Sample(line) ==
    [date |-> <<ExpandYear(line.y), line.mo, line.d>>,
     planet |-> line.planet,
     lon |-> StoreAngle(line.lon)]

LineDateOk(line) == ValidDate(ExpandYear(line.y), line.mo, line.d)

\* sort_values(['planet', 'date']): planets in string order, then dates
PlanetRank(p) == IF p = "Mars" THEN 1 ELSE IF p = "Sun" THEN 2 ELSE 3
DateLess(a, b) ==
    \/ a[1] < b[1]
    \/ (a[1] = b[1] /\ a[2] < b[2])
    \/ (a[1] = b[1] /\ a[2] = b[2] /\ a[3] < b[3])
RowLess(r, q) ==
    \/ PlanetRank(r.planet) < PlanetRank(q.planet)
    \/ (r.planet = q.planet /\ DateLess(r.date, q.date))

RECURSIVE InsertRow(_, _)
InsertRow(sorted, r) ==
    IF sorted = <<>> THEN <<r>>
    ELSE IF RowLess(r, sorted[1]) THEN <<r>> \o sorted
    ELSE <<sorted[1]>> \o InsertRow(Tail(sorted), r)

RECURSIVE SortRows(_)
SortRows(rows) ==
    IF rows = <<>> THEN <<>>
    ELSE InsertRow(SortRows(SubSeq(rows, 1, Len(rows) - 1)), rows[Len(rows)])

IngIdle ==
    /\ ingPc = "idle" /\ ingScript = "" /\ ingFile = <<>> /\ ingIdx = 0
    /\ ingRows = <<>> /\ ingError = "none" /\ ingDf = <<>> /\ ingSep = -1

IngInit ==
    /\ ingPc = "reading"
    /\ ingScript \in Scripts
    /\ ingFile \in SeqsUpTo(Lines, MaxLines)
    /\ ingIdx = 1
    /\ ingRows = <<>>
    /\ ingError = "none"
    /\ ingDf = <<>>
    /\ ingSep = -1

\* one iteration of "for line in f": parse_file lines 57-75, parse_csv lines
\* 63-70 (aspects) and 48-55 (trine).  The strict branch builds the datetime
\* outside any try; only the fallback of parse_file catches.
ParseLine ==
    /\ ingPc = "reading"
    /\ ingIdx <= Len(ingFile)
    /\ LET line == ingFile[ingIdx]
       IN  IF line.form = "strict"
           THEN IF LineDateOk(line)
                THEN /\ ingRows' = Append(ingRows, Sample(line))
                     /\ ingIdx' = ingIdx + 1
                     /\ UNCHANGED <<ingPc, ingError>>
                ELSE /\ ingPc' = "raised"
                     /\ ingError' = "ValueError: datetime"
                     /\ UNCHANGED <<ingRows, ingIdx>>
           ELSE /\ ingRows' =
                      IF /\ ingScript = "longitude"
                         /\ line.form = "fallback"
                         /\ line.parses
                         /\ LineDateOk(line)
                      THEN Append(ingRows, Sample(line))
                      ELSE ingRows
                /\ ingIdx' = ingIdx + 1
                /\ UNCHANGED <<ingPc, ingError>>
    /\ UNCHANGED <<ingScript, ingFile, ingDf, ingSep>>

\* after the loop: "if not rows: raise ValueError(...)", else the frame
\* sorted by planet and date is returned
ParseEnd ==
    /\ ingPc = "reading"
    /\ ingIdx > Len(ingFile)
    /\ IF ingRows = <<>>
       THEN /\ ingPc' = "raised"
            /\ ingError' = "ValueError: no rows parsed"
            /\ UNCHANGED ingDf
       ELSE /\ ingPc' = "parsed"
            /\ ingDf' = SortRows(ingRows)
            /\ UNCHANGED ingError
    /\ UNCHANGED <<ingScript, ingFile, ingIdx, ingRows, ingSep>>

\* pivot(index="date", columns="planet") raises on a repeated (date, planet)
NoDuplicates(df) ==
    \A i, j \in 1..Len(df) :
        (df[i].date = df[j].date /\ df[i].planet = df[j].planet) => i = j

\* the aspect scripts: for a date on which the reference and another planet
\* both have a sample, sep = wrap360(pair[p] - pair[ref_planet])
PairSeparation ==
    /\ ingPc = "parsed"
    /\ ingScript \in {"aspects", "trine"}
    /\ NoDuplicates(ingDf)
    /\ \E i, j \in 1..Len(ingDf) :
          /\ ingDf[i].planet # ingDf[j].planet
          /\ ingDf[i].date = ingDf[j].date
          /\ ingSep' = wrap360(ingDf[j].lon - ingDf[i].lon)
    /\ UNCHANGED <<ingPc, ingScript, ingFile, ingIdx, ingRows, ingError, ingDf>>

IngNext ==
    \/ ParseLine /\ UNCHANGED <<segVars, angVars, dVars, axVars, snVars, zVars, mainVars>>
    \/ ParseEnd /\ UNCHANGED <<segVars, angVars, dVars, axVars, snVars, zVars, mainVars>>
    \/ PairSeparation /\ UNCHANGED <<segVars, angVars, dVars, axVars, snVars, zVars, mainVars>>

(***************************************************************************)
(* The year of a Sample: files of one line whose year field runs through   *)
(* every value up to MaxYearField.  RE_ROW reads a year of three or four   *)
(* digits, so the strict form holds no negative year; the whitespace form  *)
(* converts the third dotted part with int(), which takes a sign.  The     *)
(* line is dated 1 or 29 February, so that some years yield no Sample.     *)
(***************************************************************************)
YearLines ==
    {Line("strict", d, 2, y, "Mars", Deg(10), TRUE) :
         d \in {1, 29}, y \in 0..MaxYearField}
    \cup {Line("fallback", d, 2, y, "Mars", Deg(10), TRUE) :
              d \in {1, 29}, y \in (0 - MaxYearBelow)..MaxYearField}

YearInit ==
    /\ ingPc = "reading"
    /\ ingScript \in Scripts
    /\ ingFile \in {<<line>> : line \in YearLines}
    /\ ingIdx = 1
    /\ ingRows = <<>>
    /\ ingError = "none"
    /\ ingDf = <<>>
    /\ ingSep = -1

YearNext ==
    \/ ParseLine /\ UNCHANGED <<segVars, angVars, dVars, axVars, snVars, zVars, mainVars>>
    \/ ParseEnd /\ UNCHANGED <<segVars, angVars, dVars, axVars, snVars, zVars, mainVars>>

(***************************************************************************)
(* A run of an aspect chart: main of plot_aspects_distance.py and of       *)
(* plot_trine_distance_multi_wide.py.  The run parses the file with the    *)
(* actions ParseLine and ParseEnd above, then checks the reference planet, *)
(* pivots the frame to one column per planet, and plots one line per       *)
(* aspect and other planet.                                                *)
(*                                                                         *)
(* --orb is a float; ymax = 1.5 * orb is compared on doubled values, so    *)
(* that it stays exact in fixed point.                                     *)
(***************************************************************************)
AspectScripts == {"aspects", "trine"}

\* the lines of the files given to the aspect scripts
MainLines ==
    { Line("strict", 1, 1, 2024, "Mars", Deg(10), TRUE),
      Line("strict", 1, 1, 2024, "Sun", Deg(137) + 1, TRUE),
      Line("strict", 2, 1, 2024, "Mars", Deg(350), TRUE),
      Line("strict", 2, 1, 2024, "Sun", Deg(110), TRUE),
      Line("strict", 1, 1, 2024, "Venus", Deg(200), TRUE),
      Line("strict", 1, 1, 2024, "Mars", Deg(20), TRUE),
      Line("strict", 31, 2, 2024, "Mars", Deg(20), TRUE),
      Line("other", 0, 0, 0, "", 0, FALSE) }

\* values of the positional argument ref_planet
RefArgs == {"Mars", "Sun", "Moon"}

\* values of --orb, in degrees
OrbDegs == {5, 40}
Orbs == {Deg(o) : o \in OrbDegs}

\* the aspect flags given on the command line
FlagSets == {{}, {"trine"}, {"square", "opposition"}}

\* chosen: the flagged aspects in the order of the four ifs, all four when
\* no flag is given
AllAspects == <<"trine", "square", "opposition", "conjunction">>
Chosen(flags) ==
    IF flags = {} THEN AllAspects
    ELSE SelectSeq(AllAspects, LAMBDA a : a \in flags)

\* the missing cell of the pivoted frame and the masked value of a line
NaN == 0 - 1

PlanetsIn(df) == {df[i].planet : i \in 1..Len(df)}
DatesIn(df) == {df[i].date : i \in 1..Len(df)}

RECURSIVE SortDates(_)
SortDates(S) ==
    IF S = {} THEN <<>>
    ELSE LET m == CHOOSE d \in S : \A e \in S : e = d \/ DateLess(d, e)
         IN  <<m>> \o SortDates(S \ {m})

RECURSIVE SortPlanets(_)
SortPlanets(S) ==
    IF S = {} THEN <<>>
    ELSE LET m == CHOOSE p \in S : \A q \in S : PlanetRank(p) <= PlanetRank(q)
         IN  <<m>> \o SortPlanets(S \ {m})

NoFrame == [index |-> <<>>, columns |-> <<>>, cell |-> <<>>]

\* df.pivot(index="date", columns="planet", values="lon_deg").sort_index()
\* for a frame without a repeated (date, planet)
Pivot(df) ==
    [index |-> SortDates(DatesIn(df)),
     columns |-> SortPlanets(PlanetsIn(df)),
     cell |-> [k \in DatesIn(df) \X PlanetsIn(df) |->
                 IF \E i \in 1..Len(df) : df[i].date = k[1] /\ df[i].planet = k[2]
                 THEN df[CHOOSE i \in 1..Len(df) :
                             df[i].date = k[1] /\ df[i].planet = k[2]].lon
                 ELSE NaN]]

\* planets = [p for p in wide.columns if p != args.ref_planet]
OtherPlanets(wide, ref) == SelectSeq(wide.columns, LAMBDA p : p # ref)

\* the index of pair = wide[[ref, p]].dropna()
PairIndex(wide, ref, p) ==
    SelectSeq(wide.index,
              LAMBDA d : wide.cell[<<d, ref>>] # NaN /\ wide.cell[<<d, p>>] # NaN)

\* d_abs: nearest_distance(d, targets) in plot_aspects_distance.py,
\* nearest_trine_abs(d) in plot_trine_distance_multi_wide.py
Distance(script, aspect, sep) ==
    IF script = "trine" THEN nearest_trine_abs(sep)
    ELSE nearest_distance(sep, ASPECTS[aspect])

\* the mask on the variant with a strict comparison
MaskLt(d, orb) == IF 2 * d < 3 * orb THEN d ELSE NaN

\* yplot = d_abs.where(d_abs <= ymax), ymax = 1.5 * orb
Mask(d, orb) == IF 2 * d <= 3 * orb THEN d ELSE NaN

\* the two arguments of ax.plot(pair.index, yplot, ...)
PlotLine(wide, script, aspect, ref, p, orb) ==
    LET idx == PairIndex(wide, ref, p)
    IN  [x |-> idx,
         y |-> [k \in 1..Len(idx) |->
                  Mask(Distance(script, aspect,
                                wrap360(wide.cell[<<idx[k], p>>]
                                        - wide.cell[<<idx[k], ref>>])),
                       orb)]]

MainIdle ==
    /\ mainPc = "idle" /\ mainRef = "" /\ mainOrb = 0 /\ mainChosen = <<>>
    /\ mainWide = NoFrame /\ mainPlanets = <<>> /\ mainSeries = <<>>
    /\ mainOutcome = "none"

MainInit ==
    /\ ingPc = "reading"
    /\ ingScript \in AspectScripts
    /\ ingFile \in SeqsUpTo(MainLines, MaxLines)
    /\ ingIdx = 1
    /\ ingRows = <<>>
    /\ ingError = "none"
    /\ ingDf = <<>>
    /\ ingSep = -1
    /\ mainPc = "parse"
    /\ mainRef \in RefArgs
    /\ mainOrb \in Orbs
    /\ mainChosen \in (IF ingScript = "aspects"
                       THEN {Chosen(flags) : flags \in FlagSets}
                       ELSE {<<"trine">>})
    /\ mainWide = NoFrame
    /\ mainPlanets = <<>>
    /\ mainSeries = <<>>
    /\ mainOutcome = "running"

\* df = parse_csv(args.csv) raised: nothing in main catches it
MainParseRaised ==
    /\ mainPc = "parse"
    /\ ingPc = "raised"
    /\ mainPc' = "exit"
    /\ mainOutcome' = ingError
    /\ UNCHANGED <<mainRef, mainOrb, mainChosen, mainWide, mainPlanets, mainSeries>>

\* if args.ref_planet not in set(df["planet"]): raise SystemExit(...)
MainRefCheck ==
    /\ mainPc = "parse"
    /\ ingPc = "parsed"
    /\ IF mainRef \notin PlanetsIn(ingDf)
       THEN /\ mainPc' = "exit"
            /\ mainOutcome' = "SystemExit: reference planet not found"
       ELSE /\ mainPc' = "pivot"
            /\ UNCHANGED mainOutcome
    /\ UNCHANGED <<mainRef, mainOrb, mainChosen, mainWide, mainPlanets, mainSeries>>

\* wide = df.pivot(...), which raises ValueError on a repeated
\* (date, planet); planets = ...; if not planets: raise SystemExit(...)
MainPivot ==
    /\ mainPc = "pivot"
    /\ IF ~NoDuplicates(ingDf)
       THEN /\ mainPc' = "exit"
            /\ mainOutcome' = "ValueError: pivot"
            /\ UNCHANGED <<mainWide, mainPlanets>>
       ELSE /\ mainWide' = Pivot(ingDf)
            /\ mainPlanets' = OtherPlanets(Pivot(ingDf), mainRef)
            /\ IF OtherPlanets(Pivot(ingDf), mainRef) = <<>>
               THEN /\ mainPc' = "exit"
                    /\ mainOutcome' = "SystemExit: no other planets"
               ELSE /\ mainPc' = "plot"
                    /\ UNCHANGED mainOutcome
    /\ UNCHANGED <<mainRef, mainOrb, mainChosen, mainSeries>>

\* the loops over chosen and planets; a pair with no common date is
\* skipped ("if pair.empty: continue"); then fig.savefig(...)
MainPlot ==
    /\ mainPc = "plot"
    /\ mainSeries' =
          [k \in {<<mainChosen[a], mainPlanets[i]>> :
                      a \in 1..Len(mainChosen),
                      i \in {j \in 1..Len(mainPlanets) :
                                 PairIndex(mainWide, mainRef, mainPlanets[j]) # <<>>}}
             |-> PlotLine(mainWide, ingScript, k[1], mainRef, k[2], mainOrb)]
    /\ mainPc' = "done"
    /\ mainOutcome' = "chart"
    /\ UNCHANGED <<mainRef, mainOrb, mainChosen, mainWide, mainPlanets>>

MainNext ==
    \/ ParseLine /\ UNCHANGED <<segVars, angVars, dVars, axVars, snVars, zVars, mainVars>>
    \/ ParseEnd /\ UNCHANGED <<segVars, angVars, dVars, axVars, snVars, zVars, mainVars>>
    \/ MainParseRaised /\ UNCHANGED <<segVars, angVars, dVars, axVars, snVars, zVars, ingVars>>
    \/ MainRefCheck /\ UNCHANGED <<segVars, angVars, dVars, axVars, snVars, zVars, ingVars>>
    \/ MainPivot /\ UNCHANGED <<segVars, angVars, dVars, axVars, snVars, zVars, ingVars>>
    \/ MainPlot /\ UNCHANGED <<segVars, angVars, dVars, axVars, snVars, zVars, ingVars>>

(***************************************************************************)
(* Specifications                                                          *)
(***************************************************************************)
InitSegment == SegInit /\ AngIdle /\ DIdle /\ AxIdle /\ SnIdle /\ ZIdle /\ IngIdle /\ MainIdle
SpecSegment == InitSegment /\ [][SegNext]_vars

InitAngle == AngInit /\ SegIdle /\ DIdle /\ AxIdle /\ SnIdle /\ ZIdle /\ IngIdle /\ MainIdle
SpecAngle == InitAngle /\ [][AngNext]_vars

InitDelta == DInit /\ SegIdle /\ AngIdle /\ AxIdle /\ SnIdle /\ ZIdle /\ IngIdle /\ MainIdle
SpecDelta == InitDelta /\ [][DNext]_vars

InitAxis == AxInit /\ SegIdle /\ AngIdle /\ DIdle /\ SnIdle /\ ZIdle /\ IngIdle /\ MainIdle
SpecAxis == InitAxis /\ [][AxNext]_vars

InitSnap == SnInit /\ SegIdle /\ AngIdle /\ DIdle /\ AxIdle /\ ZIdle /\ IngIdle /\ MainIdle
SpecSnap == InitSnap /\ [][SnNext]_vars

InitZodiac == ZInit /\ SegIdle /\ AngIdle /\ DIdle /\ AxIdle /\ SnIdle /\ IngIdle /\ MainIdle
SpecZodiac == InitZodiac /\ [][ZNext]_vars

InitIngest == IngInit /\ SegIdle /\ AngIdle /\ DIdle /\ AxIdle /\ SnIdle /\ ZIdle /\ MainIdle
SpecIngest == InitIngest /\ [][IngNext]_vars

InitYear == YearInit /\ SegIdle /\ AngIdle /\ DIdle /\ AxIdle /\ SnIdle /\ ZIdle /\ MainIdle
SpecYear == InitYear /\ [][YearNext]_vars

InitMain == MainInit /\ SegIdle /\ AngIdle /\ DIdle /\ AxIdle /\ SnIdle /\ ZIdle
SpecMain == InitMain /\ [][MainNext]_vars

----
\* C2 -- helpers of the statement
MinOf(S) == CHOOSE m \in S : \A x \in S : m <= x
Range(s) == {s[k] : k \in DOMAIN s}
Congruent(x, y) == (x - y) % Deg(360) = 0

\* C2: nearest_distance(delta, targets) is the minimum over the targets of
\* |signed_delta(delta, t)|, lies in [0, 180], is 0 exactly when delta is
\* congruent to a target mod 360, agrees with nearest_trine_abs on the
\* trine targets {120, 240}, and takes the listed example values.
C2_NearestIsMin ==
    /\ angPc \in {"nearest", "done"} =>
          /\ angNearest = MinOf({Abs(SignedDelta(angDelta, t)) : t \in Range(angTargets)})
          /\ angNearest >= 0 /\ angNearest <= Deg(180)
          /\ (angNearest = 0) <=> (\E t \in Range(angTargets) : Congruent(angDelta, t))
          /\ (angTargets = ASPECTS.trine /\ angDelta = Deg(0)) => angNearest = Deg(120)
          /\ (angTargets = ASPECTS.trine /\ angDelta = Deg(120)) => angNearest = Deg(0)
          /\ (angTargets = ASPECTS.trine /\ angDelta = Deg(180)) => angNearest = Deg(60)
          /\ (angTargets = ASPECTS.conjunction /\ angDelta = Deg(0)) => angNearest = Deg(0)
          /\ (angTargets = ASPECTS.conjunction /\ angDelta = Deg(179)) => angNearest = Deg(179)
          /\ (angTargets = ASPECTS.conjunction /\ angDelta = Deg(181)) => angNearest = Deg(179)
    /\ angPc = "done" =>
          angTrine = nearest_distance(angDelta, ASPECTS.trine)
    /\ (angPc = "done" /\ angTargets = ASPECTS.trine) => angTrine = angNearest

\* delta = 180 against the trine targets: both helpers have answered 60
C2_Witness ==
    /\ angPc = "done"
    /\ angTargets = ASPECTS.trine
    /\ angDelta = Deg(180)
    /\ angNearest = Deg(60)
    /\ angTrine = Deg(60)

----
Antipodal(a, b) == (a - b) % Deg(360) = Deg(180)

\* C3 as stated: the signed delta lies in (-180, 180], is never -180 and is
\* +180 when a and b are antipodal.
C3_AsStated ==
    dPc = "done" =>
        /\ dAB > -Deg(180) /\ dAB <= Deg(180)
        /\ Antipodal(dA, dB) => dAB = Deg(180)

\* C3 (amended): the signed delta lies in [-180, 180], and when a and b are
\* antipodal it is -180, not +180.
C3_Range ==
    dPc = "done" =>
        /\ dAB >= -Deg(180) /\ dAB <= Deg(180)
        /\ Antipodal(dA, dB) => dAB = -Deg(180)

\* the signed delta of an antipodal pair has been computed
C3_Witness ==
    dPc = "done" /\ dA = Deg(180) /\ dB = Deg(0) /\ dAB = -Deg(180)

----
C4_WitnessPlain ==
    dPc = "done" /\ dA = Deg(350) /\ dB = Deg(30) /\ dAB = -Deg(40) /\ dBA = Deg(40)

----
\* C6 -- the tier table of the time-axis plan: inclusive upper bound in
\* months (0 for the unbounded last row), major rule, minor rule, label format
TierTable ==
    << <<12,   Locator("month", 1), Locator("weekday_MO", 1), "%d %b %Y">>,
       <<36,   Locator("month", 1), Locator("month", 1),      "%b %Y">>,
       <<120,  Locator("month", 3), Locator("month", 1),      "%b %Y">>,
       <<240,  Locator("year", 1),  Locator("month", 3),      "%Y">>,
       <<480,  Locator("year", 2),  Locator("year", 1),       "%Y">>,
       <<1200, Locator("year", 5),  Locator("year", 1),       "%Y">>,
       <<0,    Locator("year", 10), Locator("year", 1),       "%Y">> >>

Fits(row, months) == TierTable[row][1] = 0 \/ months <= TierTable[row][1]
FirstFit(months) ==
    CHOOSE r \in 1..Len(TierTable) :
        Fits(r, months) /\ \A q \in 1..(r - 1) : ~Fits(q, months)

\* C6: months = (end.year - start.year)*12 + (end.month - start.month) + 1,
\* and the plan is the row of the first tier whose inclusive bound is >=
\* months; 12 -> row 1, 13 -> row 2, 120 -> row 3, 121 -> row 4.
C6_TierSelection ==
    axPc \in {"planned", "done"} =>
        /\ axMonths = (axEnd.year - axStart.year) * 12
                         + (axEnd.month - axStart.month) + 1
        /\ LET row == TierTable[FirstFit(axMonths)]
           IN  /\ axPlan.major_loc = row[2]
               /\ axPlan.minor_loc = row[3]
               /\ axPlan.fmt = row[4]
        /\ \A r \in 1..(Len(TierTable) - 1) :
              /\ axMonths = TierTable[r][1] => axPlan.major_loc = TierTable[r][2]
              /\ axMonths = TierTable[r][1] + 1 =>
                    /\ axPlan.major_loc = TierTable[r + 1][2]
                    /\ axPlan.minor_loc = TierTable[r + 1][3]
        /\ axMonths = 13 => axPlan.fmt = "%b %Y" /\ axPlan.minor_loc = Locator("month", 1)
        /\ axMonths = 121 => axPlan.major_loc = Locator("year", 1)

\* a span of exactly 120 months planned on the <=120 row, and one of 1201
\* months on the last row
C6_Witness ==
    /\ axPc = "planned" /\ axMonths = 120
    /\ axPlan.major_loc = Locator("month", 3)

C6_WitnessLast ==
    /\ axPc = "planned" /\ axMonths = 1201
    /\ axPlan.major_loc = Locator("year", 10)

----
\* C7: in every tier every major tick carries a visible label (thinning
\* factor 1), in particular in the <=120-month tier.
C7_EveryMajorLabelled ==
    axPc = "done" => \A k \in DOMAIN axLabels : axLabels[k]

----
\* C8 -- the multiples of 5 degrees around the clipped range
Fives == {Deg(5 * k) : k \in -1..73}
\* the largest multiple of 5 that is <= x, the smallest that is >= x
DownTo5(x) == CHOOSE f \in Fives : f <= x /\ x < f + Deg(5)
UpTo5(x) == CHOOSE f \in Fives : f >= x /\ x > f - Deg(5)

\* C8: for 0 <= min <= max < 360, lo = max(0, 5*floor((min-2)/5)) and
\* hi = min(360, 5*ceil((max+2)/5)), hi forced to lo + 5 if hi <= lo; lo and
\* hi are multiples of 5, 0 <= lo <= min, max <= hi <= 360, hi - lo >= 5;
\* snap_bounds(3, 47) = (0, 50).
C8_SnapBounds ==
    snPc = "done" =>
        LET lo == Max2(0, DownTo5(snMin - Deg(2)))
            hi == Min2(Deg(360), UpTo5(snMax + Deg(2)))
        IN  /\ snLo = lo
            /\ snHi = IF hi <= lo THEN lo + Deg(5) ELSE hi
            /\ snLo % Deg(5) = 0 /\ snHi % Deg(5) = 0
            /\ 0 <= snLo /\ snLo <= snMin
            /\ snMax <= snHi /\ snHi <= Deg(360)
            /\ snHi - snLo >= Deg(5)
            /\ (snMin = Deg(3) /\ snMax = Deg(47)) => (snLo = Deg(0) /\ snHi = Deg(50))

\* snap_bounds(3, 47) has returned (0, 50); a range at the top is clipped
C8_Witness ==
    snPc = "done" /\ snMin = Deg(3) /\ snMax = Deg(47) /\ snLo = Deg(0) /\ snHi = Deg(50)

C8_WitnessClipped ==
    snPc = "done" /\ snMin = Deg(1) /\ snMax = Deg(359) /\ snLo = Deg(0) /\ snHi = Deg(360)

----
\* C9 -- helpers of the statement
\* y is less than 0.001 degree away from a multiple of 30 degrees
NearCusp(y) == \E k \in 0..12 : Abs(y - TDeg(30 * k)) < TolUnits
\* n is an integer nearest to the fixed-point offset off
NearestInt(off, n) == 2 * Abs(off - TDeg(n)) <= TickScale
PaddedDegrees ==
    <<"00", "01", "02", "03", "04", "05", "06", "07", "08", "09",
      "10", "11", "12", "13", "14", "15", "16", "17", "18", "19",
      "20", "21", "22", "23", "24", "25", "26", "27", "28", "29">>

C9_WitnessDegrees ==
    zPc = "done" /\ zY = TDeg(30) - TolUnits /\ zLabel = "00" \o DegreeSign

C9_WitnessCusp ==
    zPc = "done" /\ zY = TDeg(30) /\ zLabel = "Taurus"

----
InCircle(a) == 0 <= a /\ a < Deg(360)

C5_WitnessSeparation ==
    /\ ingScript = "aspects" /\ ingPc = "parsed"
    /\ Len(ingDf) = 2
    /\ ingDf[2].lon - ingDf[1].lon < 0
    /\ ingSep = ingDf[2].lon - ingDf[1].lon + Deg(360)

----
\* C10 -- what the statement expects of a line
ShapeRead(script, line) ==
    \/ line.form = "strict"
    \/ (line.form = "fallback" /\ script = "longitude" /\ line.parses)
YieldsSample(script, line) == ShapeRead(script, line) /\ LineDateOk(line)

RECURSIVE ExpectedRows(_, _)
ExpectedRows(script, file) ==
    IF file = <<>> THEN <<>>
    ELSE (IF YieldsSample(script, file[1]) THEN <<Sample(file[1])>> ELSE <<>>)
             \o ExpectedRows(script, Tail(file))

\* C10: ingestion fails if and only if no line of the input yields a Sample,
\* with the no-rows error and no other; a line that yields no Sample (no
\* shape, or an impossible calendar date) is dropped silently and the Samples
\* of all other lines are kept, in input order.
C10_LenientPerLine ==
    /\ ingError \in {"none", "ValueError: no rows parsed"}
    /\ ingPc = "raised" => ExpectedRows(ingScript, ingFile) = <<>>
    /\ ingPc = "parsed" =>
          /\ ingRows = ExpectedRows(ingScript, ingFile)
          /\ ingRows # <<>>

(***************************************************************************)
(* The run of an aspect chart                                              *)
(***************************************************************************)
\* the samples of the series p, as pairs <<timestamp, angle>>
SeriesOf(rows, p) ==
    {<<rows[i].date, rows[i].lon>> : i \in {j \in 1..Len(rows) : rows[j].planet = p}}
HasSample(rows, p, d) == \E s \in SeriesOf(rows, p) : s[1] = d
LonAt(rows, p, d) == (CHOOSE s \in SeriesOf(rows, p) : s[1] = d)[2]
CommonDates(rows, ref, p) ==
    {d \in DatesIn(rows) : HasSample(rows, ref, d) /\ HasSample(rows, p, d)}

\* C11: for each chosen aspect and each other series, the line handed to the
\* renderer holds exactly the timestamps at which both the reference and the
\* other series have a sample (no line is drawn for a pair without such a
\* timestamp, and that is no error); at each of them the distance is
\* nearest_distance(wrap(other - reference), targets of the aspect), handed
\* over as a value if and only if it is <= 1.5 * orb and masked otherwise.
C11_PairwiseComplete ==
    mainPc = "done" =>
        /\ mainOutcome = "chart"
        /\ DOMAIN mainSeries \subseteq
               Range(mainChosen) \X (PlanetsIn(ingRows) \ {mainRef})
        /\ \A a \in Range(mainChosen), p \in PlanetsIn(ingRows) \ {mainRef} :
              LET common == CommonDates(ingRows, mainRef, p)
              IN  IF common = {}
                  THEN <<a, p>> \notin DOMAIN mainSeries
                  ELSE /\ <<a, p>> \in DOMAIN mainSeries
                       /\ LET s == mainSeries[<<a, p>>]
                          IN  /\ Range(s.x) = common
                              /\ Len(s.x) = Cardinality(common)
                              /\ DOMAIN s.y = DOMAIN s.x
                              /\ \A k \in DOMAIN s.x :
                                    LET dist ==
                                          nearest_distance(
                                              wrap360(LonAt(ingRows, p, s.x[k])
                                                      - LonAt(ingRows, mainRef, s.x[k])),
                                              ASPECTS[a])
                                    IN  /\ 2 * dist <= 3 * mainOrb => s.y[k] = dist
                                        /\ 2 * dist > 3 * mainOrb => s.y[k] = NaN

\* a chart with one distance handed over at exactly 1.5 * orb and another
\* distance masked
C11_Witness ==
    /\ mainPc = "done"
    /\ \E k \in DOMAIN mainSeries : \E i \in DOMAIN mainSeries[k].y :
          /\ mainSeries[k].y[i] # NaN
          /\ 2 * mainSeries[k].y[i] = 3 * mainOrb
    /\ \E k \in DOMAIN mainSeries : \E i \in DOMAIN mainSeries[k].y :
          mainSeries[k].y[i] = NaN

\* a chart with a line that leaves out a timestamp at which only the
\* reference has a sample
C11_WitnessExcluded ==
    /\ mainPc = "done"
    /\ \E k \in DOMAIN mainSeries : \E d \in DatesIn(ingRows) :
          /\ HasSample(ingRows, mainRef, d)
          /\ ~HasSample(ingRows, k[2], d)
          /\ d \notin Range(mainSeries[k].x)

\* a chart of the trine script on which a pair without a common timestamp
\* got no line
C11_WitnessSkipped ==
    /\ mainPc = "done"
    /\ ingScript = "trine"
    /\ \E p \in PlanetsIn(ingRows) \ {mainRef} :
          /\ CommonDates(ingRows, mainRef, p) = {}
          /\ \A k \in DOMAIN mainSeries : k[2] # p

\* the way a finished run has to end by the order of the three checks, given
\* the Samples its file yields
OutcomeByOrder(samples, ref) ==
    IF samples = <<>> THEN "ValueError: no rows parsed"
    ELSE IF ref \notin PlanetsIn(samples) THEN "SystemExit: reference planet not found"
    ELSE IF PlanetsIn(samples) \ {ref} = {} THEN "SystemExit: no other planets"
    ELSE "chart"

\* C12: a run of an aspect chart ends in exactly one outcome, decided in this
\* order: the no-rows error if the file yields no Sample; otherwise the
\* unknown-reference exit if and only if the reference is not among the
\* parsed planets; otherwise the no-other-planets exit if and only if no
\* planet but the reference remains; in every other case, whatever the
\* samples are, a chart.  No line is drawn in the three failing outcomes.
C12_OutcomeOrder ==
    mainPc \in {"exit", "done"} =>
        /\ mainOutcome = OutcomeByOrder(ExpectedRows(ingScript, ingFile), mainRef)
        /\ mainOutcome # "chart" => mainSeries = <<>>

\* C12 on the files in which every line of the strict form holds a possible
\* calendar date
C12_OutcomeOrderPossibleDates ==
    (\A k \in 1..Len(ingFile) : ingFile[k].form = "strict" => LineDateOk(ingFile[k]))
        => C12_OutcomeOrder

\* a run with the reference and another planet in the frame that ended in
\* the ValueError of df.pivot
C12_PivotRaised ==
    /\ mainPc = "exit"
    /\ mainOutcome = "ValueError: pivot"
    /\ mainRef \in PlanetsIn(ingDf)
    /\ PlanetsIn(ingDf) \ {mainRef} # {}

(***************************************************************************)
(* The year of a Sample                                                    *)
(***************************************************************************)
\* the lines already read that yielded a Sample, in input order
SourceLines ==
    SelectSeq(SubSeq(ingFile, 1, ingIdx - 1), LAMBDA line : YieldsSample(ingScript, line))

YearAsClaimed(y) == IF y < 80 THEN 2000 + y ELSE IF y < 100 THEN 1900 + y ELSE y
YearAmended(y) == IF y < 80 THEN 2000 + y ELSE IF y < 1000 THEN 1900 + y ELSE y

\* C13 as stated: the year of every Sample, from the strict form and from
\* the whitespace form alike, is 2000 + y when the year field y is below 80,
\* 1900 + y when 80 <= y < 100, and y itself when y >= 100.
C13_AsStated ==
    /\ Len(ingRows) = Len(SourceLines)
    /\ \A k \in 1..Len(ingRows) :
          ingRows[k].date[1] = YearAsClaimed(SourceLines[k].y)

\* C13, amended: the year of every Sample, from the strict form and from
\* the whitespace form alike, is 2000 + y when the year field y is below 80,
\* 1900 + y when 80 <= y < 1000, and y itself when y >= 1000.
C13_YearExpansion ==
    /\ Len(ingRows) = Len(SourceLines)
    /\ \A k \in 1..Len(ingRows) :
          ingRows[k].date[1] = YearAmended(SourceLines[k].y)

\* a Sample of the strict form with a three-digit year field from 100 up,
\* stored 1900 years later
C13_Witness ==
    \E k \in 1..Len(ingRows) :
        /\ SourceLines[k].form = "strict"
        /\ SourceLines[k].y >= 100 /\ SourceLines[k].y < 1000
        /\ ingRows[k].date[1] = SourceLines[k].y + 1900

\* a Sample of the whitespace form with a two-digit year field from 80 up
C13_WitnessFallback ==
    \E k \in 1..Len(ingRows) :
        /\ SourceLines[k].form = "fallback"
        /\ SourceLines[k].y >= 80 /\ SourceLines[k].y < 100
        /\ ingRows[k].date[1] = SourceLines[k].y + 1900

\* a Sample with a year field from 1000 up, stored as written
C13_WitnessAsWritten ==
    \E k \in 1..Len(ingRows) :
        /\ SourceLines[k].y >= 1000
        /\ ingRows[k].date[1] = SourceLines[k].y

====
